---- MODULE Spec2Model ----
(***************************************************************************)
(* Model of the vector-db service of smart-reader:                         *)
(*   services/vector-db/services/vector_service.py   (VectorService)       *)
(*   services/vector-db/services/embedding_service.py (EmbeddingService)   *)
(*   services/vector-db/models/document_embedding.py (DocumentEmbedding)   *)
(*   services/vector-db/app.py                       (HTTP handlers)       *)
(* and of the rate limiter of the ai-integration service:                  *)
(*   services/ai-integration/middleware/rate_limiter.py                    *)
(*                                                                         *)
(* Request handlers run on threads (Flask's threaded server).  A thread    *)
(* takes one step per call into the Chroma client, the Mongo collection or *)
(* the shared dict self.collections; the code holds no lock, so the steps  *)
(* of different threads interleave freely.                                 *)
(*                                                                         *)
(* The handlers of app.py call the services with await from plain def       *)
(* functions; they are read as the sequence of calls they spell out.       *)
(*                                                                         *)
(* Chroma is modelled by its documented behaviour: create_collection       *)
(* raises when the name is taken, get_collection and delete_collection     *)
(* raise when it is not, query returns the n_results nearest records in    *)
(* ascending distance (no order is promised among equal distances) and     *)
(* raises for n_results <= 0, and a handle fails once its collection has   *)
(* been deleted.                                                           *)
(*                                                                         *)
(* Strings that the code concatenates or prefix-tests (user ids and        *)
(* collection names) are sequences of characters.  Floats are fixed-point  *)
(* numbers in units of 1/Scale.  The clock (datetime.utcnow, time.time) is *)
(* the counter now; it moves only in the specifications that have a step   *)
(* for it, the others run within one reading of the clock.                 *)
(***************************************************************************)
EXTENDS Integers, Sequences, FiniteSets, TLC

\* ------------------------------------------------------------------ bounds

\* Requests started over a run, in total.
MaxRequests == 2
\* Requests started over a run of the specification that lists embeddings.
MaxListRequests == 3
\* The last reading of the clock.
MaxTime == 3
\* Failures of the stores (a call into Chroma or Mongo that raises although
\* the request is well formed) over a run.
MaxFaults == 2

\* Request threads.
Procs == {"t1", "t2"}

\* ------------------------------------------------------------------ inputs

\* User ids "1" and "12": one is a string prefix of the other.
Users == {<<"1">>, <<"1", "2">>}
Docs == {"d1", "d2"}
\* Texts, with the embedding the provider returns for each.
Texts == {"a", "b"}
Limits == {0, 1, 2}
\* ?page= and ?limit= of GET /users/<user_id>/embeddings
Pages == {0, 1, 2, 3}
PageSizes == {0, 1, 2}
\* The vectors handed to calculate_similarity: every list of at most
\* MaxDimension components.
MaxDimension == 2
Components == {-1, 0, 2}
Vectors == UNION { [1..n -> Components] : n \in 0..MaxDimension }
\* Model names, cut into the pieces the code's tests tell apart: the prefix
\* 'text-embedding' and what follows it.
ModelNames ==
    { <<"text-embedding", "-ada-002">>, <<"text-embedding", "-3-small">>,
      <<"text-embedding", "-3-large">>, <<"text-embedding", "-x">>, <<"text-embedding">>,
      <<"text-embed">>, <<"all-MiniLM-L6-v2">>, <<"all-mpnet-base-v2">>, <<"gpt-4">>, <<>> }
\* The numbers of texts handed to generate_batch_embeddings; text i is the number i.
BatchLengths == {0, 1, 100, 101, 201}
\* The call of the provider that fails, counted from 1; 0: none does.
MaxFailingCall == 3
\* Thresholds 0.0 and 0.7 in units of 1/Scale.
Thresholds == {0, 7}
\* The metadata of POST /embeddings: none ({}), or a mapping with one of the
\* keys that store_embedding sets itself.
Metadatas == { <<>>, [document_id |-> "d2"], [user_id |-> <<"1", "2">>] }
\* Fixed-point unit of similarity and distance.
Scale == 10

\* ------------------------------------------------------- strings and names

UserPrefix == <<"u", "s", "e", "r", "_">>

\* f"user_{user_id}"
CollectionName(user_id) == UserPrefix \o user_id

\* str.startswith
StartsWith(s, prefix) ==
    /\ Len(s) >= Len(prefix)
    /\ SubSeq(s, 1, Len(prefix)) = prefix

Names == {CollectionName(u) : u \in Users}

\* ------------------------------------------------------------------- state

VARIABLES
    backing,      \* Chroma: collection name -> [cid, recs]; cid = 0: no such collection
    cache,        \* self.collections: name -> cid of the cached handle, 0: not a key
    mongo,        \* the document_embeddings collection: a set of records
    nextId,       \* uuid.uuid4(): the next fresh id
    nextCid,      \* the id Chroma gives the next collection it creates
    pc,           \* per thread: where its handler stands
    req,          \* per thread: the request it serves
    loc,          \* per thread: the handler's local variables
    resp,         \* per thread: the response of the finished handler
    started,      \* requests started so far
    faults,       \* failures of the stores and of the provider so far
    now,          \* the clock
    rate_limit_storage,  \* rate_limiter.py: client key -> times of the admitted requests
    admitted,     \* history: the requests the rate limiter has let through
    requested,    \* history: the requests that reached the rate limiter
    out           \* the outcome of the last call of a function taken on its own

\* The state of the vector-db service and of its request threads.
service == <<backing, cache, mongo, nextId, nextCid, pc, req, loc, resp, started, faults>>

\* The stores of the vector-db service.
service_data == <<backing, cache, mongo, nextId, nextCid>>

\* What the handlers of the vector-db service never write.
others == <<now, rate_limit_storage, admitted, requested, out>>

vars == <<service, others>>

NoColl == [cid |-> 0, recs |-> <<>>]
NoHandle == [name |-> <<>>, cid |-> 0]
None == [kind |-> "None", val |-> 0]
IntVal(n) == [kind |-> "int", val |-> n]

NoReq == [op |-> "none", user |-> <<>>, name |-> <<>>, doc |-> "", text |-> "",
          limit |-> 0, threshold |-> 0, page |-> 0, caller |-> "",
          metadata |-> <<>>]
NoLoc == [coll |-> NoHandle, why |-> "", emb |-> <<>>, vid |-> 0, ids |-> {},
          ret |-> None, count |-> 0, id |-> 0, created_at |-> 0, current_time |-> 0,
          recent |-> <<>>]
NoResp == [status |-> 0, error |-> "", vectorId |-> 0, results |-> <<>>,
           stats |-> [total_embeddings |-> 0, unique_documents |-> 0],
           embeddings |-> <<>>, total |-> 0]
NoOut == [fn |-> "", args |-> <<>>, result |-> None]

Exists(name) == backing[name].cid # 0

\* A handle is usable while the collection it was opened on still exists.
Valid(h) == h.cid # 0 /\ backing[h.name].cid = h.cid

\* What the service finds when it is constructed (chromadb.PersistentClient
\* and Mongo keep their data across runs; self.collections starts empty):
\* nothing, or what an earlier run left after
\*   POST /embeddings {userId "1", documentId "d1", text "a"}
\*   POST /embeddings {userId "1", documentId "d2", text "b"}
\* which drew the ids 1 to 4 from uuid4 and created collection 1, at times 0
\* and 1 of the clock.
Persisted ==
    { [backing |-> [n \in Names |-> NoColl], mongo |-> {}, nextId |-> 1, nextCid |-> 1],
      [backing |-> [n \in Names |->
            IF n = UserPrefix \o <<"1">>
               THEN [cid |-> 1,
                     recs |-> << [id |-> 1, embedding |-> <<1, 0>>, document |-> "a",
                                  metadata |-> [document_id |-> "d1", user_id |-> <<"1">>]],
                                 [id |-> 3, embedding |-> <<1, 1>>, document |-> "b",
                                  metadata |-> [document_id |-> "d2", user_id |-> <<"1">>]] >>]
               ELSE NoColl],
       mongo |-> { [id |-> 2, document_id |-> "d1", user_id |-> <<"1">>,
                    created_at |-> 0, updated_at |-> 0],
                   [id |-> 4, document_id |-> "d2", user_id |-> <<"1">>,
                    created_at |-> 1, updated_at |-> 1] },
       nextId |-> 5, nextCid |-> 2] }

\* The clock when the service starts, after the times of the persisted records.
StartTime == 2

\* rate_limit_storage = defaultdict(list): no request admitted yet.
InitOthers ==
    /\ now = StartTime
    /\ rate_limit_storage = [k \in {"default"} |-> <<>>]
    /\ admitted = {}
    /\ requested = {}
    /\ out = NoOut

Init ==
    /\ InitOthers
    /\ \E s \in Persisted :
          /\ backing = s.backing
          /\ mongo = s.mongo
          /\ nextId = s.nextId
          /\ nextCid = s.nextCid
    /\ cache = [n \in Names |-> 0]
    /\ pc = [p \in Procs |-> "idle"]
    /\ req = [p \in Procs |-> NoReq]
    /\ loc = [p \in Procs |-> NoLoc]
    /\ resp = [p \in Procs |-> NoResp]
    /\ started = 0
    /\ faults = 0

\* ------------------------------------------------------- request life cycle

\* Sending a response touches nothing that is shared, so it is taken as soon
\* as the handler has ended, before any other thread's next step: a thread
\* steps only while no response is waiting to be sent.
At(p, label) ==
    /\ pc[p] = label
    /\ \A q \in Procs : pc[q] # "done"

\* The handler of thread p ends with this response.
Respond(p, r) ==
    /\ pc' = [pc EXCEPT ![p] = "done"]
    /\ resp' = [resp EXCEPT ![p] = r]

\* handle_error: an exception without status_code is answered 500.
handle_error(p, e) == Respond(p, [NoResp EXCEPT !.status = 500, !.error = e])

Ok(p, r) == Respond(p, [r EXCEPT !.status = 200])

\* The first step of each handler after its validation.
FirstStep(op) ==
    CASE op = "delete_collection" -> "dc_check"
      [] op = "get_user_embeddings" -> "gu_count"
      [] op = "get_document_embeddings" -> "gd_find"
      [] OTHER -> "gc_check"

Operations == {"create_embedding", "search_similar", "delete_document_embeddings",
               "delete_collection", "get_collection_stats"}

\* A request for one of the operations ops arrives and its handler starts.
BeginWithin(p, ops, max) ==
    /\ At(p, "idle")
    /\ started < max
    /\ \E op \in ops, u \in Users, n \in Names :
          /\ op # "delete_collection" => n = CollectionName(u)
          /\ req' = [req EXCEPT ![p] = [NoReq EXCEPT !.op = op, !.user = u, !.name = n]]
          /\ pc' = [pc EXCEPT ![p] = FirstStep(op)]
    /\ loc' = [loc EXCEPT ![p] = NoLoc]
    /\ resp' = [resp EXCEPT ![p] = NoResp]
    /\ started' = started + 1
    /\ UNCHANGED <<backing, cache, mongo, nextId, nextCid, faults, others>>

BeginOf(p, ops) == BeginWithin(p, ops, MaxRequests)

Begin(p) == BeginOf(p, Operations)

\* The response is sent; the thread is free again.
Return(p) ==
    /\ pc[p] = "done"
    /\ pc' = [pc EXCEPT ![p] = "idle"]
    /\ req' = [req EXCEPT ![p] = NoReq]
    /\ loc' = [loc EXCEPT ![p] = NoLoc]
    /\ resp' = [resp EXCEPT ![p] = NoResp]
    /\ UNCHANGED <<backing, cache, mongo, nextId, nextCid, started, faults, others>>

\* --------------------------------------------- VectorService._get_collection

\* The step that follows _get_collection in each operation.
AfterResolve(op) ==
    CASE op = "create_embedding" -> "se_add"
      [] op = "search_similar" -> "ss_query"
      [] op = "delete_document_embeddings" -> "dd_get"
      [] OTHER -> "gs_count"

\* if collection_name not in self.collections
get_collection_check(p) ==
    /\ At(p, "gc_check")
    /\ pc' = [pc EXCEPT ![p] = IF cache[req[p].name] = 0 THEN "gc_get" ELSE "gc_return"]
    /\ UNCHANGED <<backing, cache, mongo, nextId, nextCid, req, loc, resp, started, faults, others>>

\* self.client.get_collection(name): the collection exists and the call
\* returns its handle.
get_collection_open(p) ==
    /\ At(p, "gc_get")
    /\ Exists(req[p].name)
    /\ loc' = [loc EXCEPT ![p].coll = [name |-> req[p].name, cid |-> backing[req[p].name].cid]]
    /\ pc' = [pc EXCEPT ![p] = "gc_put"]
    /\ UNCHANGED <<backing, cache, mongo, nextId, nextCid, req, resp, started, faults, others>>

\* client.get_collection raises because there is no such collection; the bare
\* except: goes on to create it.
get_collection_absent(p) ==
    /\ At(p, "gc_get")
    /\ ~Exists(req[p].name)
    /\ loc' = [loc EXCEPT ![p].why = "absent"]
    /\ pc' = [pc EXCEPT ![p] = "gc_create"]
    /\ UNCHANGED <<backing, cache, mongo, nextId, nextCid, req, resp, started, faults, others>>

\* client.get_collection raises for another reason (the store is busy or
\* unreachable) although the collection exists; the bare except: catches that too.
get_collection_fault(p) ==
    /\ At(p, "gc_get")
    /\ Exists(req[p].name)
    /\ faults < MaxFaults
    /\ faults' = faults + 1
    /\ loc' = [loc EXCEPT ![p].why = "fault"]
    /\ pc' = [pc EXCEPT ![p] = "gc_create"]
    /\ UNCHANGED <<backing, cache, mongo, nextId, nextCid, req, resp, started, others>>

\* self.client.create_collection(name=..., metadata=...).  Chroma raises when
\* a collection of that name exists; the exception leaves _get_collection and
\* the operation, and the handler answers 500.
get_collection_create(p) ==
    /\ At(p, "gc_create")
    /\ IF Exists(req[p].name)
          THEN /\ handle_error(p, "AlreadyExists")
               /\ UNCHANGED <<backing, nextCid, loc>>
          ELSE /\ backing' = [backing EXCEPT ![req[p].name] = [cid |-> nextCid, recs |-> <<>>]]
               /\ loc' = [loc EXCEPT ![p].coll = [name |-> req[p].name, cid |-> nextCid]]
               /\ nextCid' = nextCid + 1
               /\ pc' = [pc EXCEPT ![p] = "gc_put"]
               /\ UNCHANGED resp
    /\ UNCHANGED <<cache, mongo, nextId, req, started, faults, others>>

\* self.collections[collection_name] = <the handle just obtained>
get_collection_put(p) ==
    /\ At(p, "gc_put")
    /\ cache' = [cache EXCEPT ![req[p].name] = loc[p].coll.cid]
    /\ pc' = [pc EXCEPT ![p] = "gc_return"]
    /\ UNCHANGED <<backing, mongo, nextId, nextCid, req, loc, resp, started, faults, others>>

\* return self.collections[collection_name]: KeyError when the entry was
\* evicted in the meantime.
get_collection_return(p) ==
    /\ At(p, "gc_return")
    /\ IF cache[req[p].name] = 0
          THEN /\ handle_error(p, "KeyError")
               /\ UNCHANGED loc
          ELSE /\ loc' = [loc EXCEPT ![p].coll = [name |-> req[p].name, cid |-> cache[req[p].name]]]
               /\ pc' = [pc EXCEPT ![p] = AfterResolve(req[p].op)]
               /\ UNCHANGED resp
    /\ UNCHANGED <<backing, cache, mongo, nextId, nextCid, req, started, faults, others>>

\* -------------------------------------------------- the embedding provider

\* EmbeddingService.generate_embedding: the vector the provider returns for a text.
generate_embedding(text) ==
    IF text = "a" THEN <<1, 0>> ELSE <<1, 1>>

\* ------------------------------------------------ the Chroma collection

RECURSIVE SumSq(_, _, _)
SumSq(a, b, i) == IF i > Len(a) THEN 0 ELSE (a[i] - b[i]) * (a[i] - b[i]) + SumSq(a, b, i + 1)

\* The distance of a collection created without hnsw:space: squared L2,
\* in units of 1/Scale.
Distance(a, b) == Scale * SumSq(a, b, 1)

\* The orders in which collection.query may list the records: ascending
\* distance, records at equal distance in any order.
QueryOrders(recs, q) ==
    { f \in [1..Len(recs) -> 1..Len(recs)] :
        /\ \A i, j \in 1..Len(recs) : i # j => f[i] # f[j]
        /\ \A i, j \in 1..Len(recs) :
              i < j => Distance(recs[f[i]].embedding, q) <= Distance(recs[f[j]].embedding, q) }

Min(a, b) == IF a < b THEN a ELSE b

\* collection.query(query_embeddings=[q], n_results=n): the n nearest records.
QueryResults(recs, q, n) ==
    { [i \in 1..Min(n, Len(recs)) |-> recs[f[i]]] : f \in QueryOrders(recs, q) }

\* The records that are left when those with an id in ids are deleted.
RECURSIVE Without(_, _)
Without(recs, ids) ==
    IF recs = <<>> THEN <<>>
    ELSE IF Head(recs).id \in ids THEN Without(Tail(recs), ids)
         ELSE <<Head(recs)>> \o Without(Tail(recs), ids)

\* collection.get(where={"document_id": d}): the ids of the matching records.
MatchingIds(recs, d) == { recs[i].id : i \in { j \in 1..Len(recs) : recs[j].metadata.document_id = d } }

\* ------------------------------------------- VectorService.store_embedding

\* embedding_metadata = {'document_id': ..., 'user_id': ..., ...,
\* **(metadata or {})}: a key of the caller's metadata replaces the entry of
\* the same key.
embedding_metadata(document_id, user_id, metadata) ==
    [document_id |-> IF "document_id" \in DOMAIN metadata
                        THEN metadata.document_id ELSE document_id,
     user_id |-> IF "user_id" \in DOMAIN metadata
                    THEN metadata.user_id ELSE user_id]

\* vector_id = str(uuid.uuid4()); collection.add(ids=[vector_id], ...)
store_embedding(p) ==
    /\ At(p, "se_add")
    /\ \E d \in Docs, t \in Texts :
          /\ req[p].doc # "" => d = req[p].doc
          /\ req[p].text # "" => t = req[p].text
          /\ req' = [req EXCEPT ![p].doc = d, ![p].text = t]
          /\ IF Valid(loc[p].coll)
                THEN /\ backing' = [backing EXCEPT ![loc[p].coll.name].recs =
                            Append(@, [id |-> nextId,
                                       embedding |-> generate_embedding(t),
                                       document |-> t,
                                       metadata |-> embedding_metadata(d, req[p].user,
                                                                     req[p].metadata)])]
                     /\ loc' = [loc EXCEPT ![p].vid = nextId, ![p].emb = generate_embedding(t)]
                     /\ nextId' = nextId + 1
                     /\ pc' = [pc EXCEPT ![p] = "de_init"]
                     /\ UNCHANGED resp
                ELSE /\ handle_error(p, "NoSuchCollection")
                     /\ UNCHANGED <<backing, loc, nextId>>
    /\ UNCHANGED <<cache, mongo, nextCid, started, faults, others>>

\* collection.add raises and the error is dropped: the caller goes on as if
\* the record had been stored.
store_embedding_fails_silently(p) ==
    /\ At(p, "se_add")
    /\ faults < MaxFaults
    /\ faults' = faults + 1
    /\ pc' = [pc EXCEPT ![p] = "de_init"]
    /\ UNCHANGED <<service_data, req, loc, resp, started, others>>

\* collection.add raises (the index is unreachable or refuses the record);
\* store_embedding logs the error and raises it again, and the handler
\* answers 500 without going on to the document store.
store_embedding_fails(p) ==
    /\ At(p, "se_add")
    /\ faults < MaxFaults
    /\ faults' = faults + 1
    /\ handle_error(p, "ChromaError")
    /\ UNCHANGED <<service_data, req, loc, started, others>>

\* DocumentEmbedding(...): self.id = str(uuid.uuid4());
\* self.created_at = datetime.utcnow()
DocumentEmbedding_init(p) ==
    /\ At(p, "de_init")
    /\ loc' = [loc EXCEPT ![p].id = nextId, ![p].created_at = now]
    /\ nextId' = nextId + 1
    /\ pc' = [pc EXCEPT ![p] = "de_save"]
    /\ UNCHANGED <<backing, cache, mongo, nextCid, req, resp, started, faults, others>>

\* self.updated_at = datetime.utcnow(); doc_embedding.save():
\* replace_one({'id': self.id}, ..., upsert=True); then the handler answers
\* with the vector id.
DocumentEmbedding_save(p) ==
    /\ At(p, "de_save")
    /\ mongo' = { m \in mongo : m.id # loc[p].id } \cup
                { [id |-> loc[p].id, document_id |-> req[p].doc, user_id |-> req[p].user,
                   created_at |-> loc[p].created_at, updated_at |-> now] }
    /\ Ok(p, [NoResp EXCEPT !.vectorId = loc[p].vid])
    /\ UNCHANGED <<backing, cache, nextId, nextCid, req, loc, started, faults, others>>

\* replace_one raises (Mongo is unreachable or refuses the write); save prints
\* the error and raises it again, and the handler answers 500.  The record
\* that store_embedding added stays in the collection.
DocumentEmbedding_save_fails(p) ==
    /\ At(p, "de_save")
    /\ faults < MaxFaults
    /\ faults' = faults + 1
    /\ handle_error(p, "MongoError")
    /\ UNCHANGED <<backing, cache, mongo, nextId, nextCid, req, loc, started, others>>

\* --------------------------------------------- VectorService.search_similar

\* The distance itself handed on as the similarity.
SimilarityAsDistance(distance) == distance

\* similarity = 1 - distance, in units of 1/Scale
Similarity(distance) == Scale - distance

\* FormatResults without its test of the threshold: every record found is kept.
RECURSIVE FormatResultsUnfiltered(_, _, _)
FormatResultsUnfiltered(found, q, threshold) ==
    IF found = <<>> THEN <<>>
    ELSE <<[id |-> Head(found).id, document |-> Head(found).document,
            metadata |-> Head(found).metadata,
            similarity |-> Similarity(Distance(Head(found).embedding, q)),
            distance |-> Distance(Head(found).embedding, q)]>>
         \o FormatResultsUnfiltered(Tail(found), q, threshold)

\* The loop over the query's answer: a record is kept when similarity >= threshold.
RECURSIVE FormatResults(_, _, _)
FormatResults(found, q, threshold) ==
    IF found = <<>> THEN <<>>
    ELSE LET r == Head(found)
             similarity == Similarity(Distance(r.embedding, q))
             rest == FormatResults(Tail(found), q, threshold)
         IN IF similarity >= threshold
               THEN <<[id |-> r.id, document |-> r.document, metadata |-> r.metadata,
                       similarity |-> similarity,
                       distance |-> Distance(r.embedding, q)]>> \o rest
               ELSE rest

\* collection.query(...) and the formatting of its answer.  Chroma raises for
\* n_results <= 0 and for a handle whose collection is gone.
search_similar(p) ==
    /\ At(p, "ss_query")
    /\ \E t \in Texts, limit \in Limits, threshold \in Thresholds :
          /\ req' = [req EXCEPT ![p].text = t, ![p].limit = limit, ![p].threshold = threshold]
          /\ IF ~Valid(loc[p].coll)
                THEN handle_error(p, "NoSuchCollection")
                ELSE IF limit <= 0
                THEN handle_error(p, "ValueError")
                ELSE \E found \in QueryResults(backing[loc[p].coll.name].recs,
                                                generate_embedding(t), limit) :
                        Ok(p, [NoResp EXCEPT !.results =
                                  FormatResults(found, generate_embedding(t), threshold)])
    /\ UNCHANGED <<backing, cache, mongo, nextId, nextCid, loc, started, faults, others>>

\* -------------------------------- VectorService.delete_document_embeddings

\* results = collection.get(where={"document_id": document_id}, ...)
delete_document_embeddings_get(p) ==
    /\ At(p, "dd_get")
    /\ \E d \in Docs :
          /\ req' = [req EXCEPT ![p].doc = d]
          /\ IF ~Valid(loc[p].coll)
                THEN /\ handle_error(p, "NoSuchCollection")
                     /\ UNCHANGED loc
                ELSE LET ids == MatchingIds(backing[loc[p].coll.name].recs, d)
                     IN /\ loc' = [loc EXCEPT ![p].ids = ids]
                        /\ pc' = [pc EXCEPT ![p] = IF ids = {} THEN "dd_mongo" ELSE "dd_delete"]
                        /\ UNCHANGED resp
    /\ UNCHANGED <<backing, cache, mongo, nextId, nextCid, started, faults, others>>

\* if results['ids']: collection.delete(ids=results['ids']); the method ends
\* without a return statement.
delete_document_embeddings_delete(p) ==
    /\ At(p, "dd_delete")
    /\ IF ~Valid(loc[p].coll)
          THEN /\ handle_error(p, "NoSuchCollection")
               /\ UNCHANGED backing
          ELSE /\ backing' = [backing EXCEPT ![loc[p].coll.name].recs = Without(@, loc[p].ids)]
               /\ pc' = [pc EXCEPT ![p] = "dd_mongo"]
               /\ UNCHANGED resp
    /\ UNCHANGED <<cache, mongo, nextId, nextCid, req, loc, started, faults, others>>

\* The value delete_document_embeddings hands back to its caller.
delete_document_embeddings_result(ids) == None

\* DocumentEmbedding.delete_by_document: delete_many({document_id, user_id});
\* then the handler answers 200.
delete_many_by_document(m, document_id, user_id) == m.document_id = document_id

delete_many(m, document_id, user_id) ==
    m.document_id = document_id /\ m.user_id = user_id

DocumentEmbedding_delete_by_document(p) ==
    /\ At(p, "dd_mongo")
    /\ mongo' = { m \in mongo : ~delete_many(m, req[p].doc, req[p].user) }
    /\ loc' = [loc EXCEPT ![p].ret = delete_document_embeddings_result(loc[p].ids)]
    /\ Ok(p, NoResp)
    /\ UNCHANGED <<backing, cache, nextId, nextCid, req, started, faults, others>>

\* delete_many raises; delete_by_document prints the error and raises it
\* again, and the handler answers 500.  The records that
\* delete_document_embeddings deleted from the collection stay deleted.
DocumentEmbedding_delete_by_document_fails(p) ==
    /\ At(p, "dd_mongo")
    /\ faults < MaxFaults
    /\ faults' = faults + 1
    /\ handle_error(p, "MongoError")
    /\ UNCHANGED <<backing, cache, mongo, nextId, nextCid, req, loc, started, others>>

\* ------------------------------------------ VectorService.delete_collection

\* if not collection_name.startswith(f"user_{user_id}"): raise ValueError(...)
BelongsToUser(collection_name, user_id) ==
    StartsWith(collection_name, CollectionName(user_id))

\* The ownership check, then self.client.delete_collection(collection_name),
\* which raises when there is no such collection.
delete_collection(p) ==
    /\ At(p, "dc_check")
    /\ IF ~BelongsToUser(req[p].name, req[p].user)
          THEN /\ handle_error(p, "TenantMismatch")
               /\ UNCHANGED backing
          ELSE IF ~Exists(req[p].name)
          THEN /\ handle_error(p, "NoSuchCollection")
               /\ UNCHANGED backing
          ELSE /\ backing' = [backing EXCEPT ![req[p].name] = NoColl]
               /\ pc' = [pc EXCEPT ![p] = "dc_evict"]
               /\ UNCHANGED resp
    /\ UNCHANGED <<cache, mongo, nextId, nextCid, req, loc, started, faults, others>>

\* if collection_name in self.collections: del self.collections[collection_name];
\* then the handler answers 200.
delete_collection_evict(p) ==
    /\ At(p, "dc_evict")
    /\ cache' = [cache EXCEPT ![req[p].name] = 0]
    /\ Ok(p, NoResp)
    /\ UNCHANGED <<backing, mongo, nextId, nextCid, req, loc, started, faults, others>>

\* --------------------------------------- VectorService.get_collection_stats

\* sample = collection.get(limit=100, include=['metadatas'])
StatsSampleLimit == 100

\* The distinct document ids among the first n records.
DocumentsOf(recs, n) == { recs[i].metadata.document_id : i \in 1..Min(n, Len(recs)) }

\* len(document_counts): the keys of the dict built from the sample.
unique_documents(recs) == Cardinality(DocumentsOf(recs, StatsSampleLimit))

\* count = collection.count()
get_collection_stats_count(p) ==
    /\ At(p, "gs_count")
    /\ IF ~Valid(loc[p].coll)
          THEN /\ handle_error(p, "NoSuchCollection")
               /\ UNCHANGED loc
          ELSE /\ loc' = [loc EXCEPT ![p].count = Len(backing[loc[p].coll.name].recs)]
               /\ pc' = [pc EXCEPT ![p] = "gs_sample"]
               /\ UNCHANGED resp
    /\ UNCHANGED <<backing, cache, mongo, nextId, nextCid, req, started, faults, others>>

\* sample = collection.get(limit=100, ...); the dict of the result
get_collection_stats_sample(p) ==
    /\ At(p, "gs_sample")
    /\ IF ~Valid(loc[p].coll)
          THEN handle_error(p, "NoSuchCollection")
          ELSE Ok(p, [NoResp EXCEPT !.stats =
                   [total_embeddings |-> loc[p].count,
                    unique_documents |-> unique_documents(backing[loc[p].coll.name].recs)]])
    /\ UNCHANGED <<backing, cache, mongo, nextId, nextCid, req, loc, started, faults, others>>

\* --------------------------------------------------------- EmbeddingService

\* self.local_models
local_models == { <<"all-MiniLM-L6-v2">>, <<"all-mpnet-base-v2">> }

\* The model of the fallback branch.
DefaultModel == <<"text-embedding", "-ada-002">>

\* The dimensions get_available_models lists.
available_models ==
    [m \in { <<"text-embedding", "-ada-002">>, <<"text-embedding", "-3-small">>,
             <<"text-embedding", "-3-large">> } \cup local_models |->
        CASE m = <<"text-embedding", "-3-large">> -> 3072
          [] m = <<"all-MiniLM-L6-v2">> -> 384
          [] m = <<"all-mpnet-base-v2">> -> 768
          [] OTHER -> 1536]

Backend(kind, model) == [backend |-> kind, model |-> model]

\* generate_embedding: the branch taken for a model name.
generate_embedding_backend(model) ==
    IF StartsWith(model, <<"text-embedding">>) THEN Backend("openai", model)
    ELSE IF model \in local_models THEN Backend("local", model)
    ELSE Backend("openai", DefaultModel)

\* A batch routing that knows the local names only.
generate_batch_embeddings_backend_local_first(model) ==
    IF model \in local_models THEN Backend("local", model)
    ELSE Backend("openai", DefaultModel)

\* generate_batch_embeddings: the branch taken for a model name.
generate_batch_embeddings_backend(model) ==
    IF StartsWith(model, <<"text-embedding">>) THEN Backend("openai", model)
    ELSE IF model \in local_models THEN Backend("local", model)
    ELSE Backend("openai", DefaultModel)

\* get_embedding_dimension; a local model reports its own dimension.
get_embedding_dimension(model) ==
    IF StartsWith(model, <<"text-embedding">>)
       THEN CASE model = <<"text-embedding", "-ada-002">> -> 1536
              [] model = <<"text-embedding", "-3-small">> -> 1536
              [] model = <<"text-embedding", "-3-large">> -> 3072
              [] OTHER -> 1536
    ELSE IF model \in local_models THEN available_models[model]
    ELSE 1536

\* batch_size = 100
batch_size == 100

\* The vector the provider returns for text number i.
ProviderEmbedding(text) == <<text>>

\* What the batch functions hand back: the list of vectors, or the exception
\* of the provider, raised again as it came.
Embeddings(list) == [kind |-> "list", value |-> list, error |-> "", chunk |-> None]
ProviderError == [kind |-> "raise", value |-> <<>>, error |-> "APIError", chunk |-> None]

\* The loop of _generate_openai_batch_embeddings from offset i on, the next
\* call of embeddings.create being call number k; call number failing raises.
RECURSIVE BatchLoop(_, _, _, _, _)
BatchLoop(texts, i, k, failing, all_embeddings) ==
    IF i >= Len(texts) THEN Embeddings(all_embeddings)
    ELSE IF k = failing THEN ProviderError
    ELSE LET batch_texts == SubSeq(texts, i + 1, Min(i + batch_size, Len(texts)))
             batch_embeddings == [j \in 1..Len(batch_texts) |-> ProviderEmbedding(batch_texts[j])]
         IN BatchLoop(texts, i + batch_size, k + 1, failing, all_embeddings \o batch_embeddings)

\* generate_batch_embeddings: the remote models in chunks, a local model in
\* one call of encode.
generate_batch_embeddings(texts, model, failing) ==
    IF generate_batch_embeddings_backend(model).backend = "openai"
       THEN BatchLoop(texts, 0, 1, failing, <<>>)
       ELSE IF failing = 1 THEN ProviderError
            ELSE Embeddings([j \in 1..Len(texts) |-> ProviderEmbedding(texts[j])])

\* -------------------------------------- VectorService.calculate_similarity

\* What a function hands back: a float dot / sqrt(den2), not a number, or an
\* exception.
Float(num, den2) == [kind |-> "float", num |-> num, den2 |-> den2, error |-> ""]
NaN == [kind |-> "nan", num |-> 0, den2 |-> 0, error |-> ""]
Raise(error) == [kind |-> "raise", num |-> 0, den2 |-> 0, error |-> error]

RECURSIVE SumProducts(_, _, _)
SumProducts(a, b, n) == IF n = 0 THEN 0 ELSE a[n] * b[n] + SumProducts(a, b, n - 1)

\* A dot product over the components both vectors have.
np_dot_zip(a, b) == Float(SumProducts(a, b, Min(Len(a), Len(b))), 1)

\* np.dot of two one-dimensional arrays: numpy raises ValueError (shapes not
\* aligned) when their lengths differ.
np_dot(a, b) ==
    IF Len(a) # Len(b) THEN Raise("ValueError")
    ELSE Float(SumProducts(a, b, Len(a)), 1)

\* np.linalg.norm, squared
NormSquared(a) == SumProducts(a, a, Len(a))

\* dot_product / (norm1 * norm2): numpy's float division gives nan for 0 / 0.
Divide(dot_product, den2) ==
    IF den2 = 0 THEN NaN
    ELSE IF dot_product = 0 THEN Float(0, 1)
    ELSE Float(dot_product, den2)

\* calculate_similarity without its test for a zero norm.
calculate_similarity_unguarded(embedding1, embedding2) ==
    LET dot_product == np_dot(embedding1, embedding2)
    IN IF dot_product.kind = "raise" THEN dot_product
       ELSE Divide(dot_product.num, NormSquared(embedding1) * NormSquared(embedding2))

\* The exception of np.dot is logged and raised again; a zero norm returns 0.0.
calculate_similarity(embedding1, embedding2) ==
    LET dot_product == np_dot(embedding1, embedding2)
    IN IF dot_product.kind = "raise" THEN dot_product
       ELSE IF NormSquared(embedding1) = 0 \/ NormSquared(embedding2) = 0
       THEN Float(0, 1)
       ELSE Divide(dot_product.num, NormSquared(embedding1) * NormSquared(embedding2))

\* -------------------------------------- DocumentEmbedding.get_stats_by_user

\* total_embeddings = count_documents({'user_id': user_id});
\* unique_documents = len(distinct('document_id', {'user_id': user_id}))
get_stats_by_user(user_id) ==
    [total_embeddings |-> Cardinality({ m \in mongo : m.user_id = user_id }),
     unique_documents |-> Cardinality({ m.document_id : m \in { x \in mongo : x.user_id = user_id } })]

\* ------------------------------------------- DocumentEmbedding.get_by_user

\* skip = (page - 1) * limit
SkipFromPage(page, limit) == page * limit

Skip(page, limit) == (page - 1) * limit

\* sort('created_at', -1): the ways to list the records S in descending
\* created_at, records of equal created_at in any order.
RECURSIVE Descending(_)
Descending(S) ==
    IF S = {} THEN {<<>>}
    ELSE LET latest == { m \in S : \A x \in S : x.created_at <= m.created_at }
         IN UNION { { <<m>> \o rest : rest \in Descending(S \ {m}) } : m \in latest }

\* find({'user_id': user_id}).sort('created_at', -1)
SortedByCreatedAt(user_id) == Descending({ m \in mongo : m.user_id = user_id })

\* cursor.skip(skip).limit(limit); limit(0) sets no limit.
SkipLimit(sorted, skip, limit) ==
    SubSeq(sorted, skip + 1, IF limit = 0 THEN Len(sorted) ELSE Min(skip + limit, Len(sorted)))

\* total = collection.count_documents({'user_id': user_id})
DocumentEmbedding_get_by_user_count(p) ==
    /\ At(p, "gu_count")
    /\ \E page \in Pages, limit \in PageSizes :
          req' = [req EXCEPT ![p].page = page, ![p].limit = limit]
    /\ loc' = [loc EXCEPT ![p].count = get_stats_by_user(req[p].user).total_embeddings]
    /\ pc' = [pc EXCEPT ![p] = "gu_find"]
    /\ UNCHANGED <<backing, cache, mongo, nextId, nextCid, resp, started, faults, others>>

\* The cursor and the loop over it.  pymongo raises for a negative skip; the
\* except clause of get_by_user then returns ([], 0).  The handler divides by
\* limit to count the pages and answers with the records and the total.
DocumentEmbedding_get_by_user_find(p) ==
    /\ At(p, "gu_find")
    /\ IF Skip(req[p].page, req[p].limit) < 0
          THEN Ok(p, [NoResp EXCEPT !.embeddings = <<>>, !.total = 0])
          ELSE IF req[p].limit = 0
          THEN handle_error(p, "ZeroDivisionError")
          ELSE \E sorted \in SortedByCreatedAt(req[p].user) :
                  Ok(p, [NoResp EXCEPT
                            !.embeddings = SkipLimit(sorted, Skip(req[p].page, req[p].limit),
                                                     req[p].limit),
                            !.total = loc[p].count])
    /\ UNCHANGED <<backing, cache, mongo, nextId, nextCid, req, loc, started, faults, others>>

\* The document store fails while the cursor of get_by_user is read: the
\* except clause prints the error and returns ([], 0), and the handler goes
\* on with that.
DocumentEmbedding_get_by_user_fails(p) ==
    /\ At(p, "gu_find")
    /\ faults < MaxFaults
    /\ faults' = faults + 1
    /\ loc' = [loc EXCEPT ![p].why = "PyMongoError"]
    /\ IF req[p].limit = 0
          THEN handle_error(p, "ZeroDivisionError")
          ELSE Ok(p, [NoResp EXCEPT !.embeddings = <<>>, !.total = 0])
    /\ UNCHANGED <<service_data, req, started, others>>

\* ---------------------------------------- DocumentEmbedding.get_by_document

\* The sequence s from its last element to its first.
Reverse(s) == [i \in 1..Len(s) |-> s[Len(s) + 1 - i]]

\* find({'document_id': ..., 'user_id': ...}).sort('created_at', 1); the
\* handler answers with the records and their number.
DocumentEmbedding_get_by_document(p) ==
    /\ At(p, "gd_find")
    /\ \E d \in Docs :
          /\ req' = [req EXCEPT ![p].doc = d]
          /\ \E sorted \in Descending({ m \in mongo : /\ m.document_id = d
                                                     /\ m.user_id = req[p].user }) :
                Ok(p, [NoResp EXCEPT !.embeddings = Reverse(sorted),
                                     !.total = Len(sorted)])
    /\ UNCHANGED <<service_data, loc, started, faults, others>>

\* The document store fails in get_by_document: the except clause prints the
\* error and returns [], which the handler answers as the document's records.
DocumentEmbedding_get_by_document_fails(p) ==
    /\ At(p, "gd_find")
    /\ faults < MaxFaults
    /\ faults' = faults + 1
    /\ \E d \in Docs : req' = [req EXCEPT ![p].doc = d]
    /\ loc' = [loc EXCEPT ![p].why = "PyMongoError"]
    /\ Ok(p, [NoResp EXCEPT !.embeddings = <<>>, !.total = 0])
    /\ UNCHANGED <<service_data, started, others>>

\* ----------------------------------------------------------- specification

\* One step of the handler that thread p runs.
Step(p) ==
    \/ Begin(p)
    \/ Return(p)
    \/ get_collection_check(p)
    \/ get_collection_open(p)
    \/ get_collection_absent(p)
    \/ get_collection_fault(p)
    \/ get_collection_create(p)
    \/ get_collection_put(p)
    \/ get_collection_return(p)
    \/ store_embedding(p)
    \/ DocumentEmbedding_init(p)
    \/ DocumentEmbedding_save(p)
    \/ search_similar(p)
    \/ delete_document_embeddings_get(p)
    \/ delete_document_embeddings_delete(p)
    \/ DocumentEmbedding_delete_by_document(p)
    \/ delete_collection(p)
    \/ delete_collection_evict(p)
    \/ get_collection_stats_count(p)
    \/ get_collection_stats_sample(p)

\* Requests served concurrently, their steps interleaved; the document store
\* takes every write.
Next == \E p \in Procs : Step(p)

Spec == Init /\ [][Next]_vars

\* Requests served one after the other, by a single thread, over a document
\* store whose writes may fail.
NextSeq ==
    \E p \in {"t1"} :
        \/ Step(p)
        \/ DocumentEmbedding_save_fails(p)
        \/ DocumentEmbedding_delete_by_document_fails(p)

SpecSeq == Init /\ [][NextSeq]_vars

\* ----------------------------------------- a collection beyond the sample

\* A record of document d stored under id i by an earlier run.
StoredRecord(i, d) ==
    [id |-> i, embedding |-> generate_embedding("a"), document |-> "a",
     metadata |-> embedding_metadata(d, <<"1">>, <<>>)]

\* The service is constructed over a store in which user "1" already holds
\* n records of document "d1", n at or just below the sample size of
\* get_collection_stats.
InitStats ==
    /\ InitOthers
    /\ \E n \in {StatsSampleLimit - 1, StatsSampleLimit} :
          /\ backing = [c \in Names |->
                IF c = CollectionName(<<"1">>)
                   THEN [cid |-> 1, recs |-> [i \in 1..n |-> StoredRecord(i, "d1")]]
                   ELSE NoColl]
          /\ nextId = n + 1
    /\ cache = [c \in Names |-> 0]
    /\ mongo = {}
    /\ nextCid = 2
    /\ pc = [p \in Procs |-> "idle"]
    /\ req = [p \in Procs |-> NoReq]
    /\ loc = [p \in Procs |-> NoLoc]
    /\ resp = [p \in Procs |-> NoResp]
    /\ started = 0
    /\ faults = 0

BeginStats(p) == BeginOf(p, {"create_embedding", "get_collection_stats"})

\* One thread stores embeddings and asks for statistics, one request after
\* the other.
NextStats ==
    \E p \in {"t1"} :
        \/ BeginStats(p)
        \/ Return(p)
        \/ get_collection_check(p)
        \/ get_collection_open(p)
        \/ get_collection_absent(p)
        \/ get_collection_fault(p)
        \/ get_collection_create(p)
        \/ get_collection_put(p)
        \/ get_collection_return(p)
        \/ store_embedding(p)
        \/ DocumentEmbedding_init(p)
        \/ DocumentEmbedding_save(p)
        \/ get_collection_stats_count(p)
        \/ get_collection_stats_sample(p)

SpecStats == InitStats /\ [][NextStats]_vars

\* ------------------------------------------------ the embeddings of a user

\* The clock moves on.  Only the next reading of the clock can tell when it
\* did, so it moves when a thread is about to read it.
Tick ==
    /\ \E p \in Procs : pc[p] \in {"de_init", "de_save"}
    /\ now < MaxTime
    /\ now' = now + 1
    /\ UNCHANGED <<service, rate_limit_storage, admitted, requested, out>>

\* GET /users/<user_id>/embeddings arrives.
BeginList(p) == BeginWithin(p, {"get_user_embeddings"}, MaxListRequests)

\* A caller builds a DocumentEmbedding for a document of a user and saves it,
\* as create_embedding does once the vector is stored.
BeginDocumentEmbedding(p) ==
    /\ At(p, "idle")
    /\ started < MaxListRequests
    /\ \E u \in Users, d \in Docs :
          req' = [req EXCEPT ![p] = [NoReq EXCEPT !.op = "DocumentEmbedding",
                                                  !.user = u, !.doc = d]]
    /\ pc' = [pc EXCEPT ![p] = "de_init"]
    /\ loc' = [loc EXCEPT ![p] = NoLoc]
    /\ resp' = [resp EXCEPT ![p] = NoResp]
    /\ started' = started + 1
    /\ UNCHANGED <<backing, cache, mongo, nextId, nextCid, faults, others>>

\* The document store on its own: one thread saves metadata records and lists
\* those of a user, one call after the other, while the clock runs.
NextList ==
    \/ Tick
    \/ \E p \in {"t1"} :
          \/ BeginList(p)
          \/ BeginDocumentEmbedding(p)
          \/ Return(p)
          \/ DocumentEmbedding_init(p)
          \/ DocumentEmbedding_save(p)
          \/ DocumentEmbedding_get_by_user_count(p)
          \/ DocumentEmbedding_get_by_user_find(p)

SpecList == Init /\ [][NextList]_vars

\* The two listings of the document store, which may fail while it is read.
NextRead ==
    \E p \in {"t1"} :
       \/ BeginWithin(p, {"get_user_embeddings", "get_document_embeddings"},
                      MaxListRequests)
       \/ Return(p)
       \/ DocumentEmbedding_get_by_user_count(p)
       \/ DocumentEmbedding_get_by_user_find(p)
       \/ DocumentEmbedding_get_by_user_fails(p)
       \/ DocumentEmbedding_get_by_document(p)
       \/ DocumentEmbedding_get_by_document_fails(p)

SpecRead == Init /\ [][NextRead]_vars

\* ------------------------------------------------- the call of the provider

\* A client built with timeout=None: its requests wait without limit.
openai_client_without_timeout == [timeout |-> None]

\* self.openai_client = openai.OpenAI(api_key=...): no timeout is given, so
\* the client keeps the default of the openai library, 600 seconds a request.
openai_client == [timeout |-> IntVal(600)]

\* POST /embeddings or POST /search arrives; the handler first calls
\* embedding_service.generate_embedding, and
\* self.openai_client.embeddings.create(...) is under way.
BeginRemote(p) ==
    /\ At(p, "idle")
    /\ started < MaxRequests
    /\ \E op \in {"create_embedding", "search_similar"}, u \in Users :
          req' = [req EXCEPT ![p] = [NoReq EXCEPT !.op = op, !.user = u,
                                                  !.name = CollectionName(u)]]
    /\ pc' = [pc EXCEPT ![p] = "ge_wait"]
    /\ loc' = [loc EXCEPT ![p] = NoLoc]
    /\ resp' = [resp EXCEPT ![p] = NoResp]
    /\ started' = started + 1
    /\ UNCHANGED <<backing, cache, mongo, nextId, nextCid, faults, others>>

\* The provider answers; the handler goes on with the vector.
generate_embedding_returns(p) ==
    /\ At(p, "ge_wait")
    /\ pc' = [pc EXCEPT ![p] = FirstStep(req[p].op)]
    /\ UNCHANGED <<backing, cache, mongo, nextId, nextCid, req, loc, resp, started, faults, others>>

\* The client's timeout ends the wait: APITimeoutError is logged, raised
\* again by _generate_openai_embedding and generate_embedding, and answered 500.
generate_embedding_times_out(p) ==
    /\ At(p, "ge_wait")
    /\ openai_client.timeout # None
    /\ handle_error(p, "APITimeoutError")
    /\ UNCHANGED <<backing, cache, mongo, nextId, nextCid, req, loc, started, faults, others>>

\* One thread serves the requests that need an embedding, one after the
\* other; the provider answers or stays silent.
NextRemote ==
    \E p \in {"t1"} :
        \/ BeginRemote(p)
        \/ generate_embedding_returns(p)
        \/ generate_embedding_times_out(p)
        \/ Return(p)
        \/ get_collection_check(p)
        \/ get_collection_open(p)
        \/ get_collection_absent(p)
        \/ get_collection_fault(p)
        \/ get_collection_create(p)
        \/ get_collection_put(p)
        \/ get_collection_return(p)
        \/ store_embedding(p)
        \/ DocumentEmbedding_init(p)
        \/ DocumentEmbedding_save(p)
        \/ search_similar(p)

\* The timer of the HTTP client runs whatever else happens: a wait that
\* lasts is ended by it.
SpecRemote ==
    Init /\ [][NextRemote]_vars /\ WF_vars(generate_embedding_times_out("t1"))

\* ------------------------------------- rate_limit (ai-integration service)

\* The clients that send requests to the ai-integration service.
Callers == {"10.0.0.1", "10.0.0.2"}

\* Two of the decorated endpoints of ai-integration/app.py.
Endpoints == {"chat", "analyze"}

\* The limits of /chat and /analyze (30 and 15 in app.py), scaled down.
ChatLimit == 2
AnalyzeLimit == 1

\* Requests to the ai-integration service and the end of the clock in a run.
MaxLimited == 4
MaxSeconds == 95

\* The time that passes between two requests, in seconds.
Delays == {29, 31}

\* The width of the limiter's window: minute_ago = current_time - 60.
Window == 60

\* @rate_limit(requests_per_minute=...) of the endpoint.
requests_per_minute(endpoint) ==
    IF endpoint = "chat" THEN ChatLimit ELSE AnalyzeLimit

\* client_ip = 'default', whoever sent the request.
client_ip(caller) == "default"

\* Time passes before a request reads the clock.
Pass ==
    /\ \E p \in Procs : pc[p] = "rl_time"
    /\ \E d \in Delays :
          /\ now + d <= MaxSeconds
          /\ now' = now + d
    /\ UNCHANGED <<service, rate_limit_storage, admitted, requested, out>>

\* A caller sends a request to a decorated endpoint: decorated_function runs.
BeginLimitedWithin(p, max) ==
    /\ At(p, "idle")
    /\ started < max
    /\ \E endpoint \in Endpoints, caller \in Callers :
          req' = [req EXCEPT ![p] = [NoReq EXCEPT !.op = endpoint, !.caller = caller]]
    /\ pc' = [pc EXCEPT ![p] = "rl_time"]
    /\ loc' = [loc EXCEPT ![p] = [NoLoc EXCEPT !.id = started + 1]]
    /\ resp' = [resp EXCEPT ![p] = NoResp]
    /\ started' = started + 1
    /\ UNCHANGED <<backing, cache, mongo, nextId, nextCid, faults, others>>

BeginLimited(p) == BeginLimitedWithin(p, MaxLimited)

\* current_time = time.time()
rate_limit_time(p) ==
    /\ At(p, "rl_time")
    /\ loc' = [loc EXCEPT ![p].current_time = now]
    /\ requested' = requested \cup {[id |-> loc[p].id, caller |-> req[p].caller,
                                     time |-> now]}
    /\ pc' = [pc EXCEPT ![p] = "rl_recent"]
    /\ UNCHANGED <<service_data, req, resp, started, faults, now,
                   rate_limit_storage, admitted, out>>

\* The times of the list times that are later than minute_ago, in order.
RECURSIVE Recent(_, _)
Recent(times, minute_ago) ==
    IF times = <<>> THEN <<>>
    ELSE IF Head(times) > minute_ago
         THEN <<Head(times)>> \o Recent(Tail(times), minute_ago)
         ELSE Recent(Tail(times), minute_ago)

\* Clean old requests, the right-hand side: the list of the key is read and
\* its recent times are collected in a new list.
rate_limit_recent(p) ==
    /\ At(p, "rl_recent")
    /\ LET key == client_ip(req[p].caller)
           minute_ago == loc[p].current_time - Window
       IN  loc' = [loc EXCEPT ![p].recent =
                      Recent(rate_limit_storage[key], minute_ago)]
    /\ pc' = [pc EXCEPT ![p] = "rl_clean"]
    /\ UNCHANGED <<service_data, req, resp, started, faults, others>>

\* Clean old requests, the assignment: the new list replaces the list of the
\* key.  Another thread may have run between the reading and this.
rate_limit_clean(p) ==
    /\ At(p, "rl_clean")
    /\ rate_limit_storage' =
          [rate_limit_storage EXCEPT ![client_ip(req[p].caller)] = loc[p].recent]
    /\ pc' = [pc EXCEPT ![p] = "rl_check"]
    /\ UNCHANGED <<service_data, req, loc, resp, started, faults, now, admitted,
                   requested, out>>

\* Check if limit exceeded: 429 without calling f, or go on to the append.
rate_limit_check(p) ==
    /\ At(p, "rl_check")
    /\ IF Len(rate_limit_storage[client_ip(req[p].caller)])
             >= requests_per_minute(req[p].op)
       THEN Respond(p, [NoResp EXCEPT !.status = 429,
                                      !.error = "Rate limit exceeded"])
       ELSE /\ pc' = [pc EXCEPT ![p] = "rl_append"]
            /\ UNCHANGED resp
    /\ UNCHANGED <<service_data, req, loc, started, faults, others>>

\* Add current request, then return f(*args, **kwargs): the handler runs.
rate_limit_append(p) ==
    /\ At(p, "rl_append")
    /\ rate_limit_storage' =
          [rate_limit_storage EXCEPT ![client_ip(req[p].caller)] =
              Append(@, loc[p].current_time)]
    /\ admitted' = admitted \cup {[id |-> loc[p].id, caller |-> req[p].caller,
                                   endpoint |-> req[p].op,
                                   time |-> loc[p].current_time]}
    /\ Ok(p, NoResp)
    /\ UNCHANGED <<service_data, req, loc, started, faults, now, requested, out>>

\* The ai-integration service with its threads serving one request after the
\* other, while time passes.
NextRate ==
    \/ Pass
    \/ \E p \in {"t1"} :
          \/ BeginLimited(p)
          \/ Return(p)
          \/ rate_limit_time(p)
          \/ rate_limit_recent(p)
          \/ rate_limit_clean(p)
          \/ rate_limit_check(p)
          \/ rate_limit_append(p)

SpecRate == Init /\ [][NextRate]_vars

\* Requests to the ai-integration service in a run of two threads.
MaxThreadedLimited == 3

\* The same service with its threads serving requests at the same time,
\* within one reading of the clock.
NextRateThreads ==
    \E p \in Procs :
          \/ BeginLimitedWithin(p, MaxThreadedLimited)
          \/ Return(p)
          \/ rate_limit_time(p)
          \/ rate_limit_recent(p)
          \/ rate_limit_clean(p)
          \/ rate_limit_check(p)
          \/ rate_limit_append(p)

SpecRateThreads == Init /\ [][NextRateThreads]_vars

\* ------------------------------------------------------- POST /embeddings

\* if not text or not document_id or not user_id, without the test of
\* document_id.
MissingButDocument(r) == r.text = "" \/ r.user = <<>>

\* if not text or not document_id or not user_id: a field that is absent
\* (None) or empty.
Missing(r) == r.text = "" \/ r.doc = "" \/ r.user = <<>>

\* POST /embeddings arrives with its body: text, documentId and userId, each
\* possibly absent or empty, and metadata.
BeginPost(p) ==
    /\ At(p, "idle")
    /\ started < MaxRequests
    /\ \E t \in Texts \cup {""}, d \in Docs \cup {""}, u \in Users \cup {<<>>},
          md \in Metadatas :
          req' = [req EXCEPT ![p] = [NoReq EXCEPT !.op = "create_embedding",
                                                  !.text = t, !.doc = d, !.user = u,
                                                  !.name = CollectionName(u),
                                                  !.metadata = md]]
    /\ pc' = [pc EXCEPT ![p] = "ce_validate"]
    /\ loc' = [loc EXCEPT ![p] = NoLoc]
    /\ resp' = [resp EXCEPT ![p] = NoResp]
    /\ started' = started + 1
    /\ UNCHANGED <<service_data, faults, others>>

\* return jsonify({'error': 'text, documentId, and userId are required'}), 400
\* or go on to generate the embedding.
create_embedding_validate(p) ==
    /\ At(p, "ce_validate")
    /\ IF Missing(req[p])
          THEN Respond(p, [NoResp EXCEPT !.status = 400,
                              !.error = "text, documentId, and userId are required"])
          ELSE /\ pc' = [pc EXCEPT ![p] = "ge_wait"]
               /\ UNCHANGED resp
    /\ UNCHANGED <<service_data, req, loc, started, faults, others>>

\* The provider answers with an error, or cannot be reached:
\* generate_embedding logs it and raises it again; the handler answers 500.
generate_embedding_fails(p) ==
    /\ At(p, "ge_wait")
    /\ faults < MaxFaults
    /\ faults' = faults + 1
    /\ handle_error(p, "APIError")
    /\ UNCHANGED <<service_data, req, loc, started, others>>

\* One thread serves POST /embeddings and DELETE /documents/<id>/embeddings,
\* one request after the other; the provider and the two stores may fail.
NextPost ==
    \E p \in {"t1"} :
        \/ BeginPost(p)
        \/ BeginOf(p, {"delete_document_embeddings"})
        \/ Return(p)
        \/ create_embedding_validate(p)
        \/ generate_embedding_returns(p)
        \/ generate_embedding_fails(p)
        \/ get_collection_check(p)
        \/ get_collection_open(p)
        \/ get_collection_absent(p)
        \/ get_collection_create(p)
        \/ get_collection_put(p)
        \/ get_collection_return(p)
        \/ store_embedding(p)
        \/ store_embedding_fails(p)
        \/ DocumentEmbedding_init(p)
        \/ DocumentEmbedding_save(p)
        \/ DocumentEmbedding_save_fails(p)
        \/ delete_document_embeddings_get(p)
        \/ delete_document_embeddings_delete(p)
        \/ DocumentEmbedding_delete_by_document(p)
        \/ DocumentEmbedding_delete_by_document_fails(p)

SpecPost == Init /\ [][NextPost]_vars

\* ------------------------------------------- functions taken on their own

\* calculate_similarity is called with two vectors.
CallCalculateSimilarity ==
    /\ \E a, b \in Vectors :
          out' = [fn |-> "calculate_similarity", args |-> <<a, b>>,
                  result |-> calculate_similarity(a, b)]
    /\ UNCHANGED <<service, now, rate_limit_storage, admitted, requested>>

\* The three functions that choose a backend are asked about one model name.
CallBackends ==
    /\ \E model \in ModelNames :
          out' = [fn |-> "backends", args |-> <<model>>,
                  result |-> [kind |-> "backends",
                              single |-> generate_embedding_backend(model),
                              batch |-> generate_batch_embeddings_backend(model),
                              dimension |-> get_embedding_dimension(model)]]
    /\ UNCHANGED <<service, now, rate_limit_storage, admitted, requested>>

\* generate_batch_embeddings is called with n texts, and the provider fails
\* at one of its calls or at none.
CallGenerateBatchEmbeddings ==
    /\ \E n \in BatchLengths, model \in {DefaultModel, <<"all-MiniLM-L6-v2">>},
          failing \in 0..MaxFailingCall :
          out' = [fn |-> "generate_batch_embeddings", args |-> <<n, model, failing>>,
                  result |-> generate_batch_embeddings([i \in 1..n |-> i], model, failing)]
    /\ UNCHANGED <<service, now, rate_limit_storage, admitted, requested>>

NextFn ==
    \/ CallCalculateSimilarity
    \/ CallBackends
    \/ CallGenerateBatchEmbeddings

SpecFn == Init /\ [][NextFn]_vars

\* ------------------------------------------------------------------ claims

Done(p, op) == pc[p] = "done" /\ req[p].op = op
Succeeded(p, op) == Done(p, op) /\ resp[p].status = 200

\* The records of the collection a finished operation worked on.
RecordsOf(p) == backing[loc[p].coll.name].recs

\* C1: delete_collection(collection_name, user_id) with collection_name other
\* than "user_" + user_id is rejected and deletes nothing, also when user_id
\* is a string prefix of the owner's id: the call never deletes the backing
\* collection (after which it stands before the eviction of the cache entry)
\* and never ends in success.
C1_ForeignDropRejected ==
    \A p \in Procs :
        (req[p].op = "delete_collection" /\ req[p].name # CollectionName(req[p].user)) =>
            /\ pc[p] # "dc_evict"
            /\ pc[p] = "done" => resp[p].status # 200

PositionOf(recs, id) == CHOOSE i \in 1..Len(recs) : recs[i].id = id

\* C3: the results of search_similar are in descending order of similarity,
\* and of two results of equal similarity the one inserted earlier comes first.
C3_OrderedTiesByInsertion ==
    \A p \in Procs :
        Succeeded(p, "search_similar") =>
            \A i, j \in 1..Len(resp[p].results) :
                i < j =>
                    \/ resp[p].results[i].similarity > resp[p].results[j].similarity
                    \/ /\ resp[p].results[i].similarity = resp[p].results[j].similarity
                       /\ PositionOf(RecordsOf(p), resp[p].results[i].id)
                             < PositionOf(RecordsOf(p), resp[p].results[j].id)

\* C4: when POST /embeddings has completed, the id it returns as vectorId is
\* the id of the record in the user's vector collection and of a metadata
\* record in the document store.
C4_SameIdInBothStores ==
    \A p \in Procs :
        Succeeded(p, "create_embedding") =>
            /\ \E i \in 1..Len(RecordsOf(p)) : RecordsOf(p)[i].id = resp[p].vectorId
            /\ \E m \in mongo : m.id = resp[p].vectorId

\* C5: when DELETE /collections/{name} has completed for the collection of
\* the user, no embedding record of that user is left in either store.
C5_PurgeClearsBothStores ==
    \A p \in Procs :
        ( /\ Succeeded(p, "delete_collection")
          /\ req[p].name = CollectionName(req[p].user) ) =>
            /\ ~Exists(req[p].name)
            /\ \A m \in mongo : m.user_id # req[p].user

\* C6: delete_document_embeddings returns the number of records it removed
\* (N for the first call on a document with N records, 0 for the next).
C6_DeleteReturnsCount ==
    \A p \in Procs :
        Succeeded(p, "delete_document_embeddings") =>
            /\ loc[p].ret.kind = "int"
            /\ loc[p].ret.val = Cardinality(loc[p].ids)

\* C7: _get_collection never calls create_collection for a collection that
\* exists, whatever made the attempt to open it fail.
C7_CreateOnlyIfAbsent ==
    [][ \A p \in Procs :
          (pc[p] = "gc_create" /\ pc'[p] # "gc_create") => ~Exists(req[p].name) ]_vars

\* C8: a resolver that found the collection missing never fails because
\* another resolver created it first.
C8_NoResolverFailsOnRace ==
    \A p \in Procs :
        ~(pc[p] = "done" /\ loc[p].why = "absent" /\ resp[p].error = "AlreadyExists")

\* C9: when delete_document_embeddings has deleted the ids it read, no record
\* of that document is left in the collection: no insert took effect between
\* its read and its deletion.
C9_DeleteExcludesInsert ==
    [][ \A p \in Procs :
          (pc[p] = "dd_delete" /\ pc'[p] = "dd_mongo") =>
              MatchingIds(backing'[loc[p].coll.name].recs, req[p].doc) = {} ]_vars

\* C10: get_collection_stats reports total_embeddings = the number of live
\* records and unique_documents = the number of distinct document ids among
\* all live records, whatever the size of the collection.
C10_StatsOverAllRecords ==
    \A p \in Procs :
        Succeeded(p, "get_collection_stats") =>
            /\ resp[p].stats.total_embeddings = Len(RecordsOf(p))
            /\ resp[p].stats.unique_documents =
                  Cardinality(DocumentsOf(RecordsOf(p), Len(RecordsOf(p))))

\* C11: when POST /embeddings has failed between the write to the vector
\* collection and the write to the document store, the record it added is
\* still in the collection, and the two stores show it: total_embeddings of
\* the user's collection differs from total_embeddings of get_stats_by_user
\* for that user.
C11_FailureShowsInStats ==
    \A p \in Procs :
        (Done(p, "create_embedding") /\ resp[p].error = "MongoError") =>
            /\ \E i \in 1..Len(RecordsOf(p)) : RecordsOf(p)[i].id = loc[p].vid
            /\ Len(RecordsOf(p)) # get_stats_by_user(req[p].user).total_embeddings

Max(a, b) == IF a > b THEN a ELSE b

\* The number of metadata records of a user.
Total(user_id) == Cardinality({ m \in mongo : m.user_id = user_id })

\* C12: for a user with T metadata records, get_by_user with page >= 1 and
\* page_size >= 1 returns max(0, min(page_size, T - (page - 1) * page_size))
\* records and total = T; a page beyond the last is an empty list with
\* total T, not an error.
C12_PageLength ==
    \A p \in Procs :
        (Done(p, "get_user_embeddings") /\ req[p].page >= 1 /\ req[p].limit >= 1) =>
            /\ resp[p].status = 200
            /\ resp[p].total = Total(req[p].user)
            /\ Len(resp[p].embeddings) =
                  Max(0, Min(req[p].limit,
                             Total(req[p].user) - (req[p].page - 1) * req[p].limit))

\* C12 witness: the second page of size 2 of a user with 3 records holds the
\* one record that is left.
C12_Witness ==
    \E p \in Procs :
        /\ Succeeded(p, "get_user_embeddings")
        /\ req[p].page = 2 /\ req[p].limit = 2
        /\ Total(req[p].user) = 3
        /\ Len(resp[p].embeddings) = 1

\* C13: the records get_by_user returns are in descending order of updated_at.
C13_OrderedByUpdatedAt ==
    \A p \in Procs :
        Succeeded(p, "get_user_embeddings") =>
            \A i, j \in 1..Len(resp[p].embeddings) :
                i < j => resp[p].embeddings[i].updated_at >= resp[p].embeddings[j].updated_at

\* The record stored last in the collection a finished operation worked on.
LastStored(p) == RecordsOf(p)[Len(RecordsOf(p))]

\* A search with threshold 0 has returned, its query being the vector of the
\* record stored last in the collection: no record was stored in between.
SearchedForLastStored(p) ==
    /\ Succeeded(p, "search_similar")
    /\ req[p].threshold = 0
    /\ RecordsOf(p) # <<>>
    /\ LastStored(p).embedding = generate_embedding(req[p].text)

\* The results hold this record with similarity 1.
ReturnedAsExact(p, id) ==
    \E i \in 1..Len(resp[p].results) :
        resp[p].results[i].id = id /\ resp[p].results[i].similarity = Scale

\* C14 as stated: a vector stored and then searched for with threshold 0 and
\* a limit of at least 1 is returned, the stored record with similarity 1.
C14_StoredRecordReturned ==
    \A p \in Procs :
        SearchedForLastStored(p) => ReturnedAsExact(p, LastStored(p).id)

\* C14 amended: the search returns a record with similarity 1 first, and it
\* returns the stored record with similarity 1 whenever the collection holds
\* no more than limit records with that vector.
C14_ExactMatchReturned ==
    \A p \in Procs :
        SearchedForLastStored(p) =>
            /\ resp[p].results # <<>>
            /\ resp[p].results[1].similarity = Scale
            /\ Cardinality({ i \in 1..Len(RecordsOf(p)) :
                    RecordsOf(p)[i].embedding = LastStored(p).embedding }) <= req[p].limit
                  => ReturnedAsExact(p, LastStored(p).id)

\* C14 witness: a search returned with similarity 1 the record that the
\* request before it had stored (ids 1 to 4 are those of an earlier run).
C14_Witness ==
    \E p \in Procs :
        /\ SearchedForLastStored(p)
        /\ LastStored(p).id > 4
        /\ ReturnedAsExact(p, LastStored(p).id)

\* The vector of n zeros.
Zeros(n) == [i \in 1..n |-> 0]

\* C15: calculate_similarity(a, b) returns 0.0, neither an exception nor
\* NaN, whenever a or b is the zero vector and the other has the same length.
C15_ZeroVectorGivesZero ==
    (out.fn = "calculate_similarity" /\ Len(out.args[1]) = Len(out.args[2])
        /\ (out.args[1] = Zeros(Len(out.args[1])) \/ out.args[2] = Zeros(Len(out.args[2]))))
    => out.result = Float(0, 1)

\* C15 witness: the zero vector of length 2 was compared with a vector that
\* is not zero, and 0.0 came back.
C15_Witness ==
    /\ out.fn = "calculate_similarity"
    /\ out.args[1] = Zeros(2)
    /\ Len(out.args[2]) = 2 /\ out.args[2] # Zeros(2)
    /\ out.result = Float(0, 1)

\* C16: calculate_similarity(a, b) with vectors of different lengths raises
\* the error of the mismatch and returns no number, also when one of them
\* has length 0 or 1.
C16_LengthMismatchRaises ==
    (out.fn = "calculate_similarity" /\ Len(out.args[1]) # Len(out.args[2]))
    => (out.result.kind = "raise" /\ out.result.error = "ValueError")

\* C16 witness: a vector of length 1 against one of length 2 raised.
C16_Witness ==
    /\ out.fn = "calculate_similarity"
    /\ Len(out.args[1]) = 1 /\ Len(out.args[2]) = 2
    /\ out.result.kind = "raise"

\* C17: the backend is a function of the model name, the same in
\* generate_embedding, generate_batch_embeddings and get_embedding_dimension:
\* a name that starts with text-embedding goes to the remote provider under
\* that name, a registered local name to the local model, any other name to
\* the remote default text-embedding-ada-002.
C17_SameBackendEverywhere ==
    out.fn = "backends" =>
        LET model == out.args[1]
            expected ==
                IF StartsWith(model, <<"text-embedding">>) THEN Backend("openai", model)
                ELSE IF model \in {<<"all-MiniLM-L6-v2">>, <<"all-mpnet-base-v2">>}
                THEN Backend("local", model)
                ELSE Backend("openai", <<"text-embedding", "-ada-002">>)
        IN /\ out.result.single = expected
           /\ out.result.batch = expected
           /\ expected.model \in DOMAIN available_models
                 => out.result.dimension = available_models[expected.model]

\* C17 witness: a name that is neither remote nor local went to the remote
\* default in all three functions.
C17_Witness ==
    /\ out.fn = "backends"
    /\ out.args[1] = <<"gpt-4">>
    /\ out.result.batch = Backend("openai", <<"text-embedding", "-ada-002">>)
    /\ out.result.dimension = 1536

\* The number of the chunk of size 100 that the failing call was to embed, if
\* the remote batch of n texts gets that far.
FailingChunk(n, failing) ==
    IF failing >= 1 /\ (failing - 1) * 100 < n THEN IntVal(failing) ELSE None

\* C18: generate_batch_embeddings over n texts returns n vectors, the i-th
\* that of the i-th text, or fails with an error that names the failing
\* chunk; it never returns the vectors of some chunks only.
C18_AllOrFailingChunkNamed ==
    (out.fn = "generate_batch_embeddings" /\ out.args[2] = <<"text-embedding", "-ada-002">>) =>
        LET n == out.args[1]
            failed == FailingChunk(n, out.args[3])
        IN IF failed = None
              THEN /\ out.result.kind = "list"
                   /\ out.result.value = [i \in 1..n |-> <<i>>]
              ELSE /\ out.result.kind = "raise"
                   /\ out.result.chunk = failed

AdmittedBefore(p) ==
    { a \in admitted : /\ a.caller = req[p].caller
                       /\ a.id # loc[p].id
                       /\ a.time > loc[p].current_time - Window }

C20_RefusedExactlyAtLimit ==
    \A p \in Procs :
       (pc[p] = "done" /\ req[p].op \in Endpoints) =>
          (resp[p].status = 429
              <=> Cardinality(AdmittedBefore(p)) >= requests_per_minute(req[p].op))

\* C21: the counters of the rate limiter are keyed by the caller: a caller
\* who has made no other request in the 60 seconds before a request is not
\* answered 429 for it, whatever other callers were admitted.
RequestedBefore(p) ==
    { r \in requested : /\ r.caller = req[p].caller
                        /\ r.id # loc[p].id
                        /\ r.time > loc[p].current_time - Window }

C21_KeyedByCaller ==
    \A p \in Procs :
       (pc[p] = "done" /\ req[p].op \in Endpoints /\ RequestedBefore(p) = {})
          => resp[p].status # 429

\* C30: with threads passing through rate_limit at the same time, no more
\* than N requests of an endpoint decorated with rate_limit(N) are admitted
\* in a window of 60 seconds, and the time of every admitted request that is
\* not yet 60 seconds old is in the stored list.
AdmittedInWindow(endpoint, end) ==
    { b \in admitted : /\ b.endpoint = endpoint
                       /\ b.time > end - Window
                       /\ b.time <= end }

Occurrences(times, t) == Cardinality({ i \in 1..Len(times) : times[i] = t })

C30_AtMostNInWindow ==
    \A a \in admitted :
       Cardinality(AdmittedInWindow(a.endpoint, a.time))
          <= requests_per_minute(a.endpoint)

C30_NoTimeLost ==
    \A a \in admitted :
       a.time > now - Window =>
          Cardinality({ b \in admitted : b.time = a.time })
             <= Occurrences(rate_limit_storage[client_ip(a.caller)], a.time)

C30_BoundHoldsUnderThreads == C30_AtMostNInWindow /\ C30_NoTimeLost

\* C22: DELETE /collections/{name}?userId=u for a collection that does not
\* belong to u is answered 403 or 404, not the generic 500.
C22_TenantFailureIs403Or404 ==
    \A p \in Procs :
       (Done(p, "delete_collection") /\ ~BelongsToUser(req[p].name, req[p].user))
          => resp[p].status \in {403, 404}

\* C23: when the document store fails during get_by_user or get_by_document,
\* the request is answered with an error status, never with a successful
\* response that carries an empty list.
C23_StoreFailureIsAnswered ==
    \A p \in Procs :
       (pc[p] = "done" /\ loc[p].why = "PyMongoError"
           /\ req[p].op \in {"get_user_embeddings", "get_document_embeddings"})
          => resp[p].status >= 400

\* C24: POST /embeddings with text, documentId or userId missing or empty is
\* answered 400, and no step of it changes the collections, the cache of
\* handles or the document store, nor draws an id or calls the provider.
C24_MissingFieldNoEffect ==
    [][ \A p \in {"t1"} :
          ( /\ req'[p].op = "create_embedding"
            /\ (req'[p].text = "" \/ req'[p].doc = "" \/ req'[p].user = <<>>) ) =>
             /\ UNCHANGED service_data
             /\ pc'[p] \in {"ce_validate", "done"}
             /\ pc'[p] = "done" => resp'[p].status = 400 ]_vars

\* C24 witness: a request without documentId has been answered 400.
C24_Witness ==
    \E p \in Procs :
       /\ Done(p, "create_embedding")
       /\ req[p].doc = "" /\ req[p].text # "" /\ req[p].user # <<>>
       /\ resp[p].status = 400

\* C25: the record that store_embedding has written carries in its metadata
\* the document_id and the user_id of the call, whatever metadata the caller
\* supplied.
C25_MetadataCarriesArguments ==
    \A p \in {"t1"} :
       (req[p].op = "create_embedding" /\ loc[p].vid # 0) =>
          \A i \in 1..Len(RecordsOf(p)) :
             RecordsOf(p)[i].id = loc[p].vid =>
                /\ RecordsOf(p)[i].metadata.document_id = req[p].doc
                /\ RecordsOf(p)[i].metadata.user_id = req[p].user

\* C26: DELETE /documents/{d}/embeddings?userId=u changes only records of
\* user u with document_id d: no step of it changes, in the vector index, a
\* record of another collection or of another document of u's collection,
\* nor, in the document store, a record of another user or another document.
OtherRecords(recs, name, user_id, document_id) ==
    SelectSeq(recs, LAMBDA r : ~(name = CollectionName(user_id)
                                  /\ r.metadata.document_id = document_id))

OtherDocuments(S, user_id, document_id) ==
    { m \in S : ~(m.user_id = user_id /\ m.document_id = document_id) }

C26_DeleteChangesOnlyItsRecords ==
    [][ \A p \in {"t1"} :
          req'[p].op = "delete_document_embeddings" =>
             /\ \A n \in Names :
                   OtherRecords(backing'[n].recs, n, req'[p].user, req'[p].doc)
                      = OtherRecords(backing[n].recs, n, req'[p].user, req'[p].doc)
             /\ OtherDocuments(mongo', req'[p].user, req'[p].doc)
                   = OtherDocuments(mongo, req'[p].user, req'[p].doc) ]_vars

\* C26 witness: a document of a user has been deleted from both stores while
\* another user holds a record of a document with the same id.
C26_Witness ==
    \E p \in Procs :
       /\ Succeeded(p, "delete_document_embeddings")
       /\ loc[p].ids # {}
       /\ \E m \in mongo : m.document_id = req[p].doc /\ m.user_id # req[p].user
       /\ \E n \in Names :
             /\ n # req[p].name
             /\ MatchingIds(backing[n].recs, req[p].doc) # {}

\* C27: under any interleaving of resolve and delete_collection requests,
\* every entry of self.collections is the handle of a backing collection
\* that exists, so that no request gets a handle of a deleted collection
\* from the cache.  (A delete_collection that has deleted the collection
\* and stands before its eviction of the entry is left aside.)
C27_CacheHoldsLiveHandles ==
    \A n \in Names :
       ( /\ cache[n] # 0
         /\ \A p \in Procs : ~(pc[p] = "dc_evict" /\ req[p].name = n) )
          => backing[n].cid = cache[n]

\* C28: POST /embeddings generates the embedding, then writes the vector
\* index, then the metadata record: until the embedding is there, and when
\* its generation fails, neither store is changed; and the document store is
\* written only by a request whose record is in the vector index.
C28_GenerateThenIndexThenMetadata ==
    [][ \A p \in {"t1"} :
          req'[p].op = "create_embedding" =>
             /\ ( \/ pc'[p] \in {"ce_validate", "ge_wait"}
                  \/ (pc[p] = "ge_wait" /\ pc'[p] = "done") )
                   => UNCHANGED <<backing, mongo>>
             /\ mongo' # mongo =>
                   /\ pc[p] = "de_save"
                   /\ \E i \in 1..Len(backing[req[p].name].recs) :
                         backing[req[p].name].recs[i].id = loc[p].vid ]_vars

\* C28 witness: a request whose index write failed has been answered, and
\* no metadata record of its document is in the document store.
C28_Witness ==
    \E p \in Procs :
       /\ Done(p, "create_embedding")
       /\ resp[p].error = "ChromaError"
       /\ \A m \in mongo : ~(m.document_id = req[p].doc /\ m.user_id = req[p].user)

\* C29: search_similar and get_collection_stats are read-only: no step of
\* them changes the set of backing collections or the records of a
\* collection, also for a user who has never stored an embedding.
C29_ReadsChangeNoCollection ==
    [][ \A p \in {"t1"} :
          req'[p].op \in {"search_similar", "get_collection_stats"} =>
             UNCHANGED backing ]_vars

====
